---------------------------- MODULE Spec2Model ----------------------------
(***************************************************************************)
(* A model of pymatgen_diffusion/neb/full_path_mapper.py: the grouping of  *)
(* unsortable objects (generic_groupby) and the FullPathMapper object: its *)
(* periodic multigraph of hops, the hop labels, the unique-hops mapping,   *)
(* the decoration of edges with data and cost, and the extraction of       *)
(* intercalating pathways.                                                 *)
(***************************************************************************)
EXTENDS Integers, Sequences, FiniteSets, TLC

VARIABLES
    phase,        \* the mapper: "new" (arguments chosen), "built", "failed";
                  \* "groupby" when the run is a call of generic_groupby
    structure,    \* the constructor's input: the sites and their neighbour pairs
    graph,        \* s_graph.graph: the edges in iteration order, with their data
    unique_hops,  \* the dict label -> edge data, as (label, edge) in insertion order
    gen,          \* the generator object of get_intercollating_path
    call,         \* the last call made on the object and how it ended
    nops,         \* the number of calls made since construction
    list_in,      \* generic_groupby: the input list (size and comparator)
    list_out,     \* generic_groupby: the labels returned
    one_path,     \* modify_path: the path taken from paths, a list of (u, v, data)
    ordered_path, \* modify_path: the path yielded (its m_path)
    hop_list,     \* get_hop_site_sequence: the list of hop dicts
    start_u,      \* get_hop_site_sequence: the index of the starting site
    site_seq      \* get_hop_site_sequence: the sequence of sites returned

pathvars == <<one_path, ordered_path, hop_list, start_u, site_seq>>

vars == <<phase, structure, graph, unique_hops, gen, call, nops, list_in, list_out,
          pathvars>>

-----------------------------------------------------------------------------
(* Bounds of the model *)

MaxNodes == 2
MaxEdges == 3
MaxOps == 2
SmallGraph == 1
MaxItems == 4

-----------------------------------------------------------------------------
(* Values held by an edge's data dict.  A value is tagged with its Python   *)
(* type: a number, a list, a numpy array; a missing key reads as Absent.    *)

Num(n) == [t |-> "num", v |-> <<n>>]
List(s) == [t |-> "list", v |-> s]
Array(s) == [t |-> "array", v |-> s]
Absent == [t |-> "absent", v |-> <<>>]

IsAbsent(x) == x.t = "absent"
NumOf(x) == x.v[1]

\* the keys of the data dict that the model follows
AttrKeys == {"hop_label", "iindex", "eindex", "hop_distance", "cost",
             "chg_total", "max_avg_chg", "profile", "grid"}

NoAttrs == [k \in AttrKeys |-> Absent]

\* s[::-1]
Reverse(s) == [i \in 1..Len(s) |-> s[Len(s) + 1 - i]]

-----------------------------------------------------------------------------
(* Periodic images: integer 3-vectors *)

Zero3 == <<0, 0, 0>>
AddI(a, b) == <<a[1] + b[1], a[2] + b[2], a[3] + b[3]>>
SubI(a, b) == <<a[1] - b[1], a[2] - b[2], a[3] - b[3]>>
NegI(a) == <<-a[1], -a[2], -a[3]>>

\* the to_jimage values the neighbour search is taken to produce
JImages == {Zero3, <<1, 0, 0>>, <<-1, 0, 0>>}

-----------------------------------------------------------------------------
(* generic_groupby.  The list is given by its length n and the comparator   *)
(* comp, a set of index pairs; a label is <<>> (None) or <<k>>.             *)

NoneLabel == <<>>

RECURSIVE InnerScanFrom(_, _, _, _, _)
\* for i2, ls2 in list(enumerate(list_out))[i1 + 1:]: ...
InnerScanFrom(comp, n, i1, i2, st) ==
    IF i2 > n THEN st
    ELSE IF <<i1, i2>> \in comp
         THEN IF st.out[i2] = NoneLabel
              THEN InnerScanFrom(comp, n, i1, i2 + 1,
                       [st EXCEPT !.out[i2] = st.out[i1]])
              ELSE InnerScanFrom(comp, n, i1, i2 + 1,
                       [st EXCEPT !.out[i1] = st.out[i2],
                                  !.label_num = st.label_num - 1])
         ELSE InnerScanFrom(comp, n, i1, i2 + 1, st)

RECURSIVE OuterLoopFrom(_, _, _, _)
\* The outer loop without `if ls1 is not None: continue`.
OuterLoopNoSkip(comp, n, i1, st) ==
    IF i1 > n THEN st
    ELSE LET s1 == [st EXCEPT !.out[i1] = <<st.label_num>>]
             s2 == InnerScanFrom(comp, n, i1, i1 + 1, s1)
         IN OuterLoopFrom(comp, n, i1 + 1,
                [s2 EXCEPT !.label_num = s2.label_num + 1])

\* for i1, ls1 in enumerate(list_out): ...
OuterLoopFrom(comp, n, i1, st) ==
    IF i1 > n THEN st
    ELSE IF st.out[i1] # NoneLabel
         THEN OuterLoopFrom(comp, n, i1 + 1, st)
         ELSE LET s1 == [st EXCEPT !.out[i1] = <<st.label_num>>]
                  s2 == InnerScanFrom(comp, n, i1, i1 + 1, s1)
              IN OuterLoopFrom(comp, n, i1 + 1,
                     [s2 EXCEPT !.label_num = s2.label_num + 1])

\* list_in has n items; comp holds <<i, j>> when comp(list_in[i], list_in[j])
generic_groupby(n, comp) ==
    OuterLoopFrom(comp, n, 1,
        [out |-> [i \in 1..n |-> NoneLabel], label_num |-> 0]).out

-----------------------------------------------------------------------------
(* The input structure.  only_sites has `nodes` sites, site n in symmetry   *)
(* orbit orbit[n]; the neighbour search within the cutoff gives `pairs`,    *)
(* one per edge of the graph in the graph's edge iteration order, each with *)
(* the MigrationPath built for it.  StructureGraph stores an edge from the  *)
(* lower to the higher site index and at most once per (u, v, to_jimage);   *)
(* a site is not its own neighbour in its own cell.                         *)

Nodes(st) == 0..(st.nodes - 1)

CandidatePairs(n) ==
    {p \in (0..(n - 1)) \X (0..(n - 1)) \X JImages :
        /\ p[1] <= p[2]
        /\ ~(p[1] = p[2] /\ p[3] = Zero3)}

\* networkx walks the edges node by node, and for one node neighbour by
\* neighbour: the edges of one node are contiguous, and so are those of
\* one (u, v) pair
EdgeOrder(s) ==
    /\ \A i, j \in 1..Len(s) : i < j => s[i][1] <= s[j][1]
    /\ \A i, j, k \in 1..Len(s) :
          (i < j /\ j < k /\ s[i][1] = s[k][1] /\ s[i][2] = s[k][2])
              => s[j][2] = s[i][2]
    /\ \A i, j \in 1..Len(s) : i # j => s[i] # s[j]

\* the symmetry classes of the hops, numbered in order of first appearance
ClassNumbering(c) ==
    \A i \in 1..Len(c) :
        \/ \E j \in 1..(i - 1) : c[j] = c[i]
        \/ /\ \A j \in 1..(i - 1) : c[j] < c[i]
           /\ c[i] = Cardinality({c[j] : j \in 1..(i - 1)}) + 1

\* the hops u -> u + img and u -> u - img of one site are carried onto each
\* other by the lattice translation, so they are one symmetry class
SelfLoopPairs(s, c) ==
    \A i, j \in 1..Len(s) :
        (s[i][1] = s[i][2] /\ s[j][1] = s[j][2] /\ s[i][1] = s[j][1]
            /\ s[i][3] = NegI(s[j][3])) => c[i] = c[j]

\* MigrationPath.length: symmetrically equivalent hops have the same length
HopLength(cls) == cls + 1

MakeHop(u, cls) == [isite |-> u, cls |-> cls, length |-> HopLength(cls)]

EdgeLists(n) ==
    UNION {{s \in [1..k -> CandidatePairs(n)] : EdgeOrder(s)} : k \in 0..MaxEdges}

ClassLists(k) == {c \in [1..k -> 1..k] : ClassNumbering(c)}

Orbits(n) == [0..(n - 1) -> 1..2]

MakeStructure(n, o, s, c) ==
    [nodes |-> n, orbit |-> o,
     pairs |-> [i \in 1..Len(s) |->
                   [u |-> s[i][1], v |-> s[i][2], to_jimage |-> s[i][3],
                    hop |-> MakeHop(s[i][1], c[i])]]]

Structures ==
    UNION {UNION {UNION {{MakeStructure(n, o, s, c) :
                              c \in {x \in ClassLists(Len(s)) : SelfLoopPairs(s, x)}} :
                             s \in EdgeLists(n)} :
                      o \in Orbits(n)} :
               n \in 1..MaxNodes}

-----------------------------------------------------------------------------
(* Construction: FullPathMapper.__init__ *)

\* MigrationPath.__eq__: the two hops are symmetrically equivalent
HopEq(h1, h2) == h1.cls = h2.cls

\* comp=lambda x, y: x[1] == y[1] over the list of (g_index, hop)
HopComp(es) == {<<i, j>> \in (1..Len(es)) \X (1..Len(es)) : HopEq(es[i].hop, es[j].hop)}

\* group_and_label_hops: edge number i of the iteration gets labs[i]
group_and_label_hops(es) ==
    LET labs == generic_groupby(Len(es), HopComp(es))
    IN [i \in 1..Len(es) |->
           [es[i] EXCEPT !.d["hop_label"] = Num(labs[i][1])]]

\* for u, v, d in ihop_data: d["iindex"] = u ...
SetHopIndices(es) ==
    [i \in 1..Len(es) |->
        [es[i] EXCEPT !.d["iindex"] = Num(es[i].u),
                      !.d["eindex"] = Num(es[i].v),
                      !.d["hop_distance"] = Num(es[i].hop.length)]]

\* dict assignment d[k] = e on a dict kept as (key, value) pairs in insertion
\* order: a key already present keeps its place and takes the new value
DictSet(dict, k, e) ==
    IF \E i \in 1..Len(dict) : dict[i].k = k
    THEN [i \in 1..Len(dict) |-> IF dict[i].k = k THEN [k |-> k, e |-> e] ELSE dict[i]]
    ELSE Append(dict, [k |-> k, e |-> e])

RECURSIVE UniqueHopsOver(_, _, _)
\* {d["hop_label"]: d for u, v, d in ihop_data} over the edge numbers `order`;
\* the value kept is the edge's own data dict, named here by the edge's number
UniqueHopsOver(es, order, dict) ==
    IF order = <<>> THEN dict
    ELSE UniqueHopsOver(es, Tail(order),
             DictSet(dict, es[Head(order)].d["hop_label"], Head(order)))

\* A mutant: the edges taken in the graph's own order, not reversed.
PopulateNotReversed(es) ==
    UniqueHopsOver(es, [i \in 1..Len(es) |-> i], <<>>)

\* _populate_unique_hops_dict, the unique_hops part: reversed so that the
\* first instance represents the group
_populate_unique_hops_dict(es) ==
    UniqueHopsOver(es, Reverse([i \in 1..Len(es) |-> i]), <<>>)

NoCall == [op |-> "none", outcome |-> "none"]
NoGen == [state |-> "none"]

BuildGraph(st) ==
    SetHopIndices(group_and_label_hops(
        [i \in 1..Len(st.pairs) |->
            [u |-> st.pairs[i].u, v |-> st.pairs[i].v,
             to_jimage |-> st.pairs[i].to_jimage, hop |-> st.pairs[i].hop,
             d |-> NoAttrs]]))

NoStructure == [nodes |-> 0, orbit |-> <<>>, pairs |-> <<>>]

\* no call of modify_path or get_hop_site_sequence is under way
NoPathCall ==
    /\ one_path = <<>>
    /\ ordered_path = <<>>
    /\ hop_list = <<>>
    /\ start_u = 0
    /\ site_seq = <<>>

\* a mapper about to be constructed from a structure
InitMapper ==
    /\ phase = "new"
    /\ structure \in Structures
    /\ graph = <<>>
    /\ unique_hops = <<>>
    /\ gen = NoGen
    /\ call = NoCall
    /\ nops = 0
    /\ list_in = [n |-> 0, comp |-> {}]
    /\ list_out = <<>>
    /\ NoPathCall

\* the comparators over a list of n items: comp(list_in[i], list_in[j]) for
\* each i, j, reflexive and symmetric
Comparators(n) ==
    {r \in SUBSET ((1..n) \X (1..n)) :
        /\ \A i \in 1..n : <<i, i>> \in r
        /\ \A i, j \in 1..n : <<i, j>> \in r => <<j, i>> \in r}

\* a list about to be grouped
InitGroupby ==
    /\ phase = "groupby"
    /\ \E n \in 0..MaxItems : \E r \in Comparators(n) : list_in = [n |-> n, comp |-> r]
    /\ list_out = <<>>
    /\ structure = NoStructure
    /\ graph = <<>>
    /\ unique_hops = <<>>
    /\ gen = NoGen
    /\ call = NoCall
    /\ nops = 0
    /\ NoPathCall

Init == InitMapper \/ InitGroupby

\* generic_groupby(list_in, comp)
Groupby ==
    /\ phase = "groupby"
    /\ call = NoCall
    /\ list_out' = generic_groupby(list_in.n, list_in.comp)
    /\ call' = [op |-> "generic_groupby", outcome |-> "ok"]
    /\ UNCHANGED <<phase, structure, graph, unique_hops, gen, nops, list_in, pathvars>>

\* A mutant: vac_mode is looked at after the graph is built.
ConstructThenCheck(vac_mode) ==
    /\ phase = "new"
    /\ phase' = IF vac_mode THEN "failed" ELSE "built"
    /\ graph' = BuildGraph(structure)
    /\ unique_hops' = _populate_unique_hops_dict(BuildGraph(structure))
    /\ call' = [op |-> "__init__",
                outcome |-> IF vac_mode THEN "NotImplementedError" ELSE "ok",
                vac_mode |-> vac_mode]
    /\ UNCHANGED <<structure, gen, nops, list_in, list_out, pathvars>>

\* FullPathMapper(structure, migrating_specie, vac_mode=vac_mode)
Construct(vac_mode) ==
    /\ phase = "new"
    /\ IF vac_mode
       THEN /\ phase' = "failed"
            /\ call' = [op |-> "__init__", outcome |-> "NotImplementedError",
                        vac_mode |-> vac_mode]
            /\ UNCHANGED <<graph, unique_hops>>
       ELSE /\ phase' = "built"
            /\ graph' = BuildGraph(structure)
            /\ unique_hops' = _populate_unique_hops_dict(BuildGraph(structure))
            /\ call' = [op |-> "__init__", outcome |-> "ok", vac_mode |-> vac_mode]
    /\ UNCHANGED <<structure, gen, nops, list_in, list_out, pathvars>>

-----------------------------------------------------------------------------
(* Decoration: add_data_to_similar_edges and assign_cost_to_graph.  A data  *)
(* dict is a sequence of (key, value) pairs in the dict's key order; a     *)
(* reference hop m_path is given by the symmetry orbit of its isite: the    *)
(* sites of orbit 1 are those symmetrically equivalent to it.               *)

NoPath == [given |-> FALSE, orbit |-> 0]
RefPath(o) == [given |-> TRUE, orbit |-> o]

DataKeys(data) == {data[i].k : i \in 1..Len(data)}
DataIndex(data, k) == CHOOSE i \in 1..Len(data) : data[i].k = k

\* A mutant: the edge's dict becomes the data (d = dict(data)), the keys it
\* had before being lost.
DictReplace(d, data) ==
    [k \in AttrKeys |->
        IF k \in DataKeys(data) THEN data[DataIndex(data, k)].v ELSE Absent]

\* d.update(data)
DictUpdate(d, data) ==
    [k \in AttrKeys |->
        IF k \in DataKeys(data) THEN data[DataIndex(data, k)].v ELSE d[k]]

\* m_path.symm_structure.spacegroup.are_symmetrically_equivalent(
\*     [m_path.isite], [d["hop"].isite])
SameOrientation(st, m_path, e) == st.orbit[e.hop.isite] = m_path.orbit

RECURSIVE FlipKeysFrom(_, _, _)
\* A mutant: a numpy array is passed over like any other value that is not a
\* list, with no Warning.
FlipKeysNoWarning(d, data, i) ==
    IF i > Len(data) THEN [d |-> d, outcome |-> "ok"]
    ELSE IF data[i].v.t # "list"
         THEN FlipKeysFrom(d, data, i + 1)
         ELSE FlipKeysFrom(
                  [d EXCEPT ![data[i].k] = List(Reverse(d[data[i].k].v))],
                  data, i + 1)

\* for k in data.keys(): ... ; gives the dict and whether Warning was raised
FlipKeysFrom(d, data, i) ==
    IF i > Len(data) THEN [d |-> d, outcome |-> "ok"]
    ELSE IF data[i].v.t = "array"
         THEN [d |-> d, outcome |-> "Warning"]
         ELSE IF data[i].v.t # "list"
              THEN FlipKeysFrom(d, data, i + 1)
              ELSE FlipKeysFrom(
                       [d EXCEPT ![data[i].k] = List(Reverse(d[data[i].k].v))],
                       data, i + 1)

\* data with its lists reversed in place
ReversedLists(data) ==
    [j \in 1..Len(data) |->
        IF data[j].v.t = "list"
        THEN [k |-> data[j].k, v |-> List(Reverse(data[j].v.v))]
        ELSE data[j]]

RECURSIVE AddDataFrom(_, _, _, _, _, _)
\* A mutant: the label of the edge is not looked at.
AddDataAnyLabel(st, es, target_label, data, m_path, i) ==
    IF i > Len(es) THEN [graph |-> es, outcome |-> "ok"]
    ELSE AddDataFrom(st, [es EXCEPT ![i].d = DictUpdate(es[i].d, data)],
                     target_label, data, m_path, i + 1)

\* A mutant: the flip reverses the caller's list itself (data[k].reverse()),
\* so the edges that follow are handed the reversed list.
AddDataFlipInPlace(st, es, target_label, data, m_path, i) ==
    IF i > Len(es) THEN [graph |-> es, outcome |-> "ok"]
    ELSE IF es[i].d["hop_label"] # Num(target_label)
         THEN AddDataFrom(st, es, target_label, data, m_path, i + 1)
         ELSE LET d1 == DictUpdate(es[i].d, data) IN
              IF m_path.given /\ ~SameOrientation(st, m_path, es[i])
              THEN LET r == FlipKeysFrom(d1, data, 1)
                       es1 == [es EXCEPT ![i].d = r.d]
                   IN IF r.outcome = "ok"
                      THEN AddDataFrom(st, es1, target_label, ReversedLists(data),
                                       m_path, i + 1)
                      ELSE [graph |-> es1, outcome |-> r.outcome]
              ELSE AddDataFrom(st, [es EXCEPT ![i].d = d1],
                               target_label, data, m_path, i + 1)

\* for u, v, d in self.s_graph.graph.edges(data=True): ...
AddDataFrom(st, es, target_label, data, m_path, i) ==
    IF i > Len(es) THEN [graph |-> es, outcome |-> "ok"]
    ELSE IF es[i].d["hop_label"] # Num(target_label)
         THEN AddDataFrom(st, es, target_label, data, m_path, i + 1)
         ELSE LET d1 == DictUpdate(es[i].d, data) IN
              IF m_path.given /\ ~SameOrientation(st, m_path, es[i])
              THEN LET r == FlipKeysFrom(d1, data, 1)
                       es1 == [es EXCEPT ![i].d = r.d]
                   IN IF r.outcome = "ok"
                      THEN AddDataFrom(st, es1, target_label, data, m_path, i + 1)
                      ELSE [graph |-> es1, outcome |-> r.outcome]
              ELSE AddDataFrom(st, [es EXCEPT ![i].d = d1],
                               target_label, data, m_path, i + 1)

add_data_to_similar_edges(st, es, target_label, data, m_path) ==
    AddDataFrom(st, es, target_label, data, m_path, 1)

RECURSIVE Prod(_)
\* np.prod
Prod(s) == IF s = <<>> THEN 1 ELSE Head(s) * Prod(Tail(s))

RECURSIVE AssignCostFrom(_, _, _, _, _)
\* A mutant: the cost is the first of the cost keys, not their product.
AssignCostFirstKey(st, es, uh, cost_keys, i) ==
    IF i > Len(uh) THEN [graph |-> es, outcome |-> "ok"]
    ELSE LET v == es[uh[i].e].d IN
         IF \E j \in 1..Len(cost_keys) : IsAbsent(v[cost_keys[j]])
         THEN [graph |-> es, outcome |-> "KeyError"]
         ELSE LET cost_val == NumOf(v[cost_keys[1]])
                  r == add_data_to_similar_edges(st, es, NumOf(uh[i].k),
                           <<[k |-> "cost", v |-> Num(cost_val)]>>, NoPath)
              IN AssignCostFrom(st, r.graph, uh, cost_keys, i + 1)

\* for k, v in self.unique_hops.items(): ...; v is the representative
\* edge's own dict, so it shows what earlier rounds of the loop wrote
AssignCostFrom(st, es, uh, cost_keys, i) ==
    IF i > Len(uh) THEN [graph |-> es, outcome |-> "ok"]
    ELSE LET v == es[uh[i].e].d IN
         IF \E j \in 1..Len(cost_keys) : IsAbsent(v[cost_keys[j]])
         THEN [graph |-> es, outcome |-> "KeyError"]
         ELSE LET cost_val == Prod([j \in 1..Len(cost_keys) |-> NumOf(v[cost_keys[j]])])
                  r == add_data_to_similar_edges(st, es, NumOf(uh[i].k),
                           <<[k |-> "cost", v |-> Num(cost_val)]>>, NoPath)
              IN AssignCostFrom(st, r.graph, uh, cost_keys, i + 1)

\* A mutant: only the first of the unique hops gets its cost.
AssignCostFirstLabel(st, es, uh, cost_keys) ==
    AssignCostFrom(st, es, IF uh = <<>> THEN uh ELSE <<uh[1]>>, cost_keys, 1)

assign_cost_to_graph(st, es, uh, cost_keys) ==
    AssignCostFrom(st, es, uh, cost_keys, 1)

-----------------------------------------------------------------------------
(* The periodic Dijkstra engine (periodic_dijkstra, get_optimal_pathway_rev *)
(* of pymatgen_diffusion.neb.periodic_dijkstra).  A traversal state is     *)
(* <<node index, image>>; the queue holds <<distance, index, image>>.       *)

max_image == 1

Abs(x) == IF x < 0 THEN -x ELSE x
InImageBound(img) == \A c \in 1..3 : Abs(img[c]) <= max_image

\* the graph as undirected: an edge stored u -> v with to_jimage leads from
\* u to v by +to_jimage and from v to u by -to_jimage
RECURSIVE Adjacency(_, _, _)
Adjacency(es, n, i) ==
    IF i > Len(es) THEN <<>>
    ELSE LET e == es[i]
             fwd == IF e.u = n
                    THEN <<[to |-> e.v, dj |-> e.to_jimage, w |-> NumOf(e.d["cost"])]>>
                    ELSE <<>>
             bwd == IF e.v = n
                    THEN <<[to |-> e.u, dj |-> NegI(e.to_jimage), w |-> NumOf(e.d["cost"])]>>
                    ELSE <<>>
         IN fwd \o bwd \o Adjacency(es, n, i + 1)

\* the order of the priority queue: by distance, then by state
EntryLess(a, b) ==
    LET ka == <<a[1], a[2], a[3][1], a[3][2], a[3][3]>>
        kb == <<b[1], b[2], b[3][1], b[3][2], b[3][3]>>
    IN \E i \in 1..5 : ka[i] < kb[i] /\ \A j \in 1..(i - 1) : ka[j] = kb[j]

PopMin(pq) == CHOOSE m \in pq : \A o \in pq : o = m \/ EntryLess(m, o)

HasBest(ds, s) == s \in DOMAIN ds.best

\* parent[s] = p, parent being a dict in insertion order
SetParent(parent, s, p) ==
    IF \E i \in 1..Len(parent) : parent[i].s = s
    THEN [i \in 1..Len(parent) |-> IF parent[i].s = s THEN [s |-> s, p |-> p] ELSE parent[i]]
    ELSE Append(parent, [s |-> s, p |-> p])

RECURSIVE RelaxFrom(_, _, _, _, _)
\* relax every edge leaving the state cur, reached at distance dist
RelaxFrom(ds, cur, dist, adj, j) ==
    IF j > Len(adj) THEN ds
    ELSE LET nxt == <<adj[j].to, AddI(cur[2], adj[j].dj)>>
             new_cost == dist + adj[j].w
         IN IF ~InImageBound(nxt[2])
            THEN RelaxFrom(ds, cur, dist, adj, j + 1)
            ELSE IF HasBest(ds, nxt) /\ ds.best[nxt] <= new_cost
                 THEN RelaxFrom(ds, cur, dist, adj, j + 1)
                 ELSE RelaxFrom(
                          [best |-> (nxt :> new_cost) @@ ds.best,
                           parent |-> SetParent(ds.parent, nxt, cur),
                           pq |-> ds.pq \cup {<<new_cost, nxt[1], nxt[2]>>}],
                          cur, dist, adj, j + 1)

RECURSIVE DijkstraLoop(_, _)
DijkstraLoop(es, ds) ==
    IF ds.pq = {} THEN ds
    ELSE LET m == PopMin(ds.pq)
             cur == <<m[2], m[3]>>
         IN DijkstraLoop(es,
                RelaxFrom([ds EXCEPT !.pq = ds.pq \ {m}], cur, m[1],
                          Adjacency(es, m[2], 1), 1))

\* periodic_dijkstra(GG, sources={u}, weight="cost", max_image=1):
\* best_ans and path_parent
periodic_dijkstra(es, u) ==
    DijkstraLoop(es, [best |-> (<<u, Zero3>> :> 0),
                      parent |-> <<>>,
                      pq |-> {<<0, u, Zero3>>}])

ParentOf(parent, s) == parent[CHOOSE i \in 1..Len(parent) : parent[i].s = s].p
HasParent(parent, s) == \E i \in 1..Len(parent) : parent[i].s = s

RECURSIVE get_optimal_pathway_rev(_, _)
\* the states from the leaf back to the source
get_optimal_pathway_rev(parent, leaf) ==
    IF HasParent(parent, leaf)
    THEN <<leaf>> \o get_optimal_pathway_rev(parent, ParentOf(parent, leaf))
    ELSE <<leaf>>

-----------------------------------------------------------------------------
(* get_intercollating_path: a generator; one resumption runs the loop over  *)
(* the nodes from where it stopped up to the next yield, error or end.      *)

HasAllCosts(es) == \A i \in 1..Len(es) : ~IsAbsent(es[i].d["cost"])

\* A mutant: no edge is cut.
PrunedNone(es, max_val) == es

\* A mutant: an edge is cut when its cost reaches max_val.
PrunedStrict(es, max_val) ==
    SelectSeq(es, LAMBDA e : ~(NumOf(e.d["cost"]) >= max_val))

\* GG with the edges of cost > max_val removed
Pruned(es, max_val) ==
    SelectSeq(es, LAMBDA e : ~(NumOf(e.d["cost"]) > max_val))

\* the keys (idx, jimage) of path_parent with idx == u and jimage != (0,0,0),
\* in the dict's order
EscapeKeys(parent, u) ==
    LET keys == [i \in 1..Len(parent) |-> parent[i].s]
    IN SelectSeq(keys, LAMBDA s : s[1] = u /\ s[2] # Zero3)

\* A mutant: the first of all_paths, whatever its distance.
BestLeafFirst(ds, keys) == keys[1]

\* min(all_paths, key=lambda x: best_ans[x[-1]]): the first of the least
BestLeaf(ds, keys) ==
    keys[CHOOSE i \in 1..Len(keys) :
            /\ \A j \in 1..Len(keys) : ds.best[keys[i]] <= ds.best[keys[j]]
            /\ \A j \in 1..(i - 1) : ds.best[keys[j]] > ds.best[keys[i]]]

\* the edges of GG from i1_ to i2_ whose to_jimage is +/- image_diff
MatchingEdges(gg, s1, s2) ==
    LET i1_ == IF s1[1] <= s2[1] THEN s1[1] ELSE s2[1]
        i2_ == IF s1[1] <= s2[1] THEN s2[1] ELSE s1[1]
        image_diff == SubI(s2[2], s1[2])
    IN SelectSeq(gg, LAMBDA e : /\ e.u = i1_ /\ e.v = i2_
                                /\ e.to_jimage \in {image_diff, NegI(image_diff)})

RECURSIVE StitchFrom(_, _, _, _)
\* for (idx1, jimage1), (idx2, jimage2) in zip(path[:-1], path[1:]): ...
StitchFrom(gg, path, i, path_hops) ==
    IF i >= Len(path) THEN [outcome |-> "yield", path_hops |-> path_hops]
    ELSE LET found == MatchingEdges(gg, path[i], path[i + 1])
         IN IF Len(found) # 1
            THEN [outcome |-> "RuntimeError", path_hops |-> path_hops \o found]
            ELSE StitchFrom(gg, path, i + 1, path_hops \o found)

NoResult(outcome, pos) ==
    [outcome |-> outcome, u |-> pos, route |-> <<>>, path_hops |-> <<>>]

RECURSIVE GenStep(_, _, _, _)
\* A mutant: the loop ends at the first node with no path (break for continue).
GenStepBreak(st, es, max_val, pos) ==
    IF pos >= st.nodes THEN NoResult("StopIteration", pos)
    ELSE IF ~HasAllCosts(es) THEN NoResult("KeyError", pos)
    ELSE LET gg == Pruned(es, max_val)
             ds == periodic_dijkstra(gg, pos)
             keys == EscapeKeys(ds.parent, pos)
         IN IF keys = <<>> THEN NoResult("StopIteration", st.nodes)
            ELSE LET path == Reverse(get_optimal_pathway_rev(ds.parent, BestLeaf(ds, keys)))
                     r == StitchFrom(gg, path, 1, <<>>)
                 IN [outcome |-> r.outcome, u |-> pos, route |-> path,
                     path_hops |-> r.path_hops]

\* for u in self.s_graph.graph.nodes(): ..., resumed at node pos
GenStep(st, es, max_val, pos) ==
    IF pos >= st.nodes THEN NoResult("StopIteration", pos)
    ELSE IF ~HasAllCosts(es) THEN NoResult("KeyError", pos)
    ELSE LET gg == Pruned(es, max_val)
             ds == periodic_dijkstra(gg, pos)
             keys == EscapeKeys(ds.parent, pos)
         IN IF keys = <<>> THEN GenStep(st, es, max_val, pos + 1)
            ELSE LET path == Reverse(get_optimal_pathway_rev(ds.parent, BestLeaf(ds, keys)))
                     r == StitchFrom(gg, path, 1, <<>>)
                 IN [outcome |-> r.outcome, u |-> pos, route |-> path,
                     path_hops |-> r.path_hops]

\* the calls the model makes: MaxOps of them on a mapper, and one more on a
\* mapper whose graph has at most SmallGraph edges
OpsAllowed ==
    IF Len(structure.pairs) <= SmallGraph THEN MaxOps + 1 ELSE MaxOps

DefaultMaxVal == 100000
MaxVals == {1, 2, DefaultMaxVal}

\* all_paths = self.get_intercollating_path(max_val): nothing runs yet
StartGen(max_val) ==
    /\ phase = "built"
    /\ nops < OpsAllowed
    /\ gen' = [state |-> "suspended", max_val |-> max_val, pos |-> 0, yielded |-> <<>>]
    /\ call' = [op |-> "get_intercollating_path", outcome |-> "generator",
                max_val |-> max_val]
    /\ nops' = nops + 1
    /\ UNCHANGED <<phase, structure, graph, unique_hops, list_in, list_out, pathvars>>

\* A mutant: the edges are cut from self.s_graph.graph, not from a copy.
GenNextNoCopy ==
    /\ phase = "built"
    /\ gen.state = "suspended"
    /\ LET r == GenStep(structure, graph, gen.max_val, gen.pos)
       IN /\ gen' = IF r.outcome = "yield"
                    THEN [gen EXCEPT !.pos = r.u + 1,
                                     !.yielded = Append(gen.yielded, r.u)]
                    ELSE [gen EXCEPT !.state = "finished", !.pos = r.u]
          /\ call' = [op |-> "next", outcome |-> r.outcome, max_val |-> gen.max_val,
                      from |-> gen.pos, u |-> r.u, route |-> r.route,
                      path_hops |-> r.path_hops]
          /\ graph' = IF HasAllCosts(graph) /\ gen.pos < structure.nodes
                      THEN Pruned(graph, gen.max_val) ELSE graph
    /\ UNCHANGED <<phase, structure, unique_hops, nops, list_in, list_out, pathvars>>

\* next(all_paths)
GenNext ==
    /\ phase = "built"
    /\ gen.state = "suspended"
    /\ LET r == GenStep(structure, graph, gen.max_val, gen.pos)
       IN /\ gen' = IF r.outcome = "yield"
                    THEN [gen EXCEPT !.pos = r.u + 1,
                                     !.yielded = Append(gen.yielded, r.u)]
                    ELSE [gen EXCEPT !.state = "finished", !.pos = r.u]
          /\ call' = [op |-> "next", outcome |-> r.outcome, max_val |-> gen.max_val,
                      from |-> gen.pos, u |-> r.u, route |-> r.route,
                      path_hops |-> r.path_hops]
    /\ UNCHANGED <<phase, structure, graph, unique_hops, nops, list_in, list_out, pathvars>>

\* the arguments of the calls
TargetLabels == 0..(MaxEdges - 1)

\* numbers with a list, and a number and a list with a numpy array
DataDicts ==
    { <<[k |-> "chg_total", v |-> Num(1)], [k |-> "max_avg_chg", v |-> Num(2)],
        [k |-> "profile", v |-> List(<<1, 2>>)]>>,
      <<[k |-> "max_avg_chg", v |-> Num(3)], [k |-> "profile", v |-> List(<<3, 4>>)],
        [k |-> "grid", v |-> Array(<<5, 6>>)]>> }

RefPaths == {NoPath, RefPath(1)}

CostKeyLists == { <<"hop_distance">>, <<"hop_distance", "max_avg_chg">> }

AddData(target_label, data, m_path) ==
    /\ phase = "built"
    /\ nops < OpsAllowed
    /\ LET r == add_data_to_similar_edges(structure, graph, target_label, data, m_path)
       IN /\ graph' = r.graph
          /\ call' = [op |-> "add_data_to_similar_edges", outcome |-> r.outcome,
                      target_label |-> target_label, data |-> data, m_path |-> m_path]
    /\ nops' = nops + 1
    /\ UNCHANGED <<phase, structure, unique_hops, gen, list_in, list_out, pathvars>>

AssignCost(cost_keys) ==
    /\ phase = "built"
    /\ nops < OpsAllowed
    /\ LET r == assign_cost_to_graph(structure, graph, unique_hops, cost_keys)
       IN /\ graph' = r.graph
          /\ call' = [op |-> "assign_cost_to_graph", outcome |-> r.outcome,
                      cost_keys |-> cost_keys]
    /\ nops' = nops + 1
    /\ UNCHANGED <<phase, structure, unique_hops, gen, list_in, list_out, pathvars>>

\* what a consumer of the generator gets at its first step: the generator
\* made by get_intercollating_path(max_val) run up to its first result
FirstResult(max_val) == GenStep(structure, graph, max_val, 0)

\* one_path[0][2] (line 358) for one_path = (u, path_hops), a result of the
\* generator: one_path[0] is the node index u, an int, which has no items
ModifyResult(r) ==
    IF r.outcome = "yield" THEN "TypeError" ELSE r.outcome

\* next(self.modify_path(self.get_intercollating_path(max_val)))
ModifyPathOfResults(max_val) ==
    /\ phase = "built"
    /\ nops < OpsAllowed
    /\ LET r == FirstResult(max_val)
       IN call' = [op |-> "modify_path(get_intercollating_path)",
                   outcome |-> ModifyResult(r), max_val |-> max_val,
                   result |-> r.outcome, u |-> r.u, path_hops |-> r.path_hops]
    /\ nops' = nops + 1
    /\ UNCHANGED <<phase, structure, graph, unique_hops, gen, list_in, list_out, pathvars>>

\* the loop of get_least_chg_path at its first path: hop[2] (line 762) for
\* hop in path, path = (u, path_hops): the first hop is the node index u, an
\* int, which has no items; with no path at all min_path = [] is returned
LeastChgResult(r) ==
    IF r.outcome = "yield" THEN "TypeError"
    ELSE IF r.outcome = "StopIteration" THEN "ok"
    ELSE r.outcome

\* self.get_least_chg_path()
GetLeastChgPath ==
    /\ phase = "built"
    /\ nops < OpsAllowed
    /\ LET r == FirstResult(DefaultMaxVal)
       IN call' = [op |-> "get_least_chg_path", outcome |-> LeastChgResult(r),
                   result |-> r.outcome, min_path |-> <<>>]
    /\ nops' = nops + 1
    /\ UNCHANGED <<phase, structure, graph, unique_hops, gen, list_in, list_out, pathvars>>

Next ==
    \/ Groupby
    \/ \E vac_mode \in BOOLEAN : Construct(vac_mode)
    \/ \E t \in TargetLabels, data \in DataDicts, m_path \in RefPaths :
          AddData(t, data, m_path)
    \/ \E cost_keys \in CostKeyLists : AssignCost(cost_keys)
    \/ \E max_val \in MaxVals : StartGen(max_val)
    \/ GenNext
    \/ \E max_val \in MaxVals : ModifyPathOfResults(max_val)
    \/ GetLeastChgPath

Spec == Init /\ [][Next]_vars

-----------------------------------------------------------------------------
(* modify_path and get_hop_site_sequence, each checked as a function of its *)
(* arguments.  A hop given to modify_path is the tuple (u, v, data); of the *)
(* data dict the model keeps to_jimage and the identity of the dict (id).   *)

MaxHops == 3
MaxSites == 3

Sites == 0..(MaxSites - 1)

HopData(to_jimage, id) == [to_jimage |-> to_jimage, id |-> id]

\* the paths of at most n hops, each with a data dict of its own
OnePaths(n) ==
    UNION {{[i \in 1..k |-> <<p[i][1], p[i][2], HopData(p[i][3], i)>>] :
               p \in [1..k -> Sites \X Sites \X JImages]} : k \in 0..n}

\* the lists of at most n hop dicts
HopLists(n) ==
    UNION {[1..k -> [iindex : Sites, eindex : Sites]] : k \in 0..n}

\* set(one_hop[0:2])
EndPoints(hop) == {hop[1], hop[2]}

\* list(a_set)[0] for a set of small non-negative ints: CPython walks such a
\* set in increasing order
FirstOf(S) == CHOOSE x \in S : \A y \in S : x <= y

\* new_hop of the general case: the end points swapped, a copy of the data
\* with to_jimage negated
FlippedHop(one_hop_info) ==
    <<one_hop_info[2], one_hop_info[1],
      [one_hop_info[3] EXCEPT !.to_jimage = NegI(@)]>>

RECURSIVE WalkFrom(_, _, _, _)
\* for one_hop_info in one_path: ... previous_point = m_path[-1][1]
WalkFrom(path, i, previous_point, mp) ==
    IF i > Len(path) THEN [outcome |-> "yield", m_path |-> mp]
    ELSE LET one_hop_info == path[i]
             kept == IF one_hop_info[1] = previous_point
                     THEN Append(mp, one_hop_info)
                     ELSE mp
             added == IF one_hop_info[2] = previous_point
                      THEN Append(kept, FlippedHop(one_hop_info))
                      ELSE kept
         IN IF added = <<>>
            THEN [outcome |-> "IndexError", m_path |-> added]
            ELSE WalkFrom(path, i + 1, added[Len(added)][2], added)

\* the body of modify_path's loop for one path of paths
modify_path(path_in) ==
    IF Len(path_in) = 0
    THEN [outcome |-> "IndexError", m_path |-> <<>>]
    ELSE LET path == IF path_in[1][3].to_jimage # Zero3
                     THEN Reverse(path_in)
                     ELSE path_in
         IN IF Len(path) < 2
            THEN [outcome |-> "IndexError", m_path |-> <<>>]
            ELSE IF EndPoints(path[1]) = EndPoints(path[2])
                 THEN IF path[1][1] = path[2][1]
                      THEN [outcome |-> "yield",
                            m_path |-> <<<<path[1][2], path[1][1], path[1][3]>>,
                                         path[2]>>]
                      ELSE [outcome |-> "yield", m_path |-> <<>>]
                 ELSE LET common == EndPoints(path[1]) \cap EndPoints(path[Len(path)])
                      IN IF common = {}
                         THEN [outcome |-> "IndexError", m_path |-> <<>>]
                         ELSE WalkFrom(path, 1, FirstOf(common), <<>>)

RECURSIVE SiteSeqFrom(_, _, _)
\* A mutant: a hop is followed from its iindex only.
SiteSeqForwardOnly(hops, i, seq) ==
    IF i > Len(hops) THEN [outcome |-> "ok", site_seq |-> seq]
    ELSE IF hops[i].iindex = seq[Len(seq)]
         THEN SiteSeqFrom(hops, i + 1, Append(seq, hops[i].eindex))
         ELSE [outcome |-> "RuntimeError", site_seq |-> <<>>]

\* for ihop in hops: ...
SiteSeqFrom(hops, i, seq) ==
    IF i > Len(hops) THEN [outcome |-> "ok", site_seq |-> seq]
    ELSE IF hops[i].iindex = seq[Len(seq)]
         THEN SiteSeqFrom(hops, i + 1, Append(seq, hops[i].eindex))
         ELSE IF hops[i].eindex = seq[Len(seq)]
              THEN SiteSeqFrom(hops, i + 1, Append(seq, hops[i].iindex))
              ELSE [outcome |-> "RuntimeError", site_seq |-> <<>>]

get_hop_site_sequence(hops, su) ==
    IF hops = <<>>
    THEN [outcome |-> "StopIteration", site_seq |-> <<>>]
    ELSE SiteSeqFrom(hops, 2,
             IF hops[1].eindex = su
             THEN <<hops[1].eindex, hops[1].iindex>>
             ELSE <<hops[1].iindex, hops[1].eindex>>)

NoMapper ==
    /\ structure = NoStructure
    /\ graph = <<>>
    /\ unique_hops = <<>>
    /\ gen = NoGen
    /\ call = NoCall
    /\ nops = 0
    /\ list_in = [n |-> 0, comp |-> {}]
    /\ list_out = <<>>

\* a path about to be given to modify_path
InitModifyPath ==
    /\ phase = "modify_path"
    /\ one_path \in OnePaths(MaxHops)
    /\ ordered_path = <<>>
    /\ hop_list = <<>>
    /\ start_u = 0
    /\ site_seq = <<>>
    /\ NoMapper

\* a hop list about to be given to get_hop_site_sequence
InitHopSiteSequence ==
    /\ phase = "get_hop_site_sequence"
    /\ hop_list \in HopLists(MaxHops)
    /\ start_u \in Sites
    /\ site_seq = <<>>
    /\ one_path = <<>>
    /\ ordered_path = <<>>
    /\ NoMapper

PathInit == InitModifyPath \/ InitHopSiteSequence

\* next(self.modify_path([one_path]))
ModifyPath ==
    /\ phase = "modify_path"
    /\ call = NoCall
    /\ LET r == modify_path(one_path)
       IN /\ ordered_path' = r.m_path
          /\ call' = [op |-> "modify_path", outcome |-> r.outcome]
    /\ UNCHANGED <<phase, structure, graph, unique_hops, gen, nops, list_in, list_out,
                   one_path, hop_list, start_u, site_seq>>

\* get_hop_site_sequence(hop_list, start_u)
GetHopSiteSequence ==
    /\ phase = "get_hop_site_sequence"
    /\ call = NoCall
    /\ LET r == get_hop_site_sequence(hop_list, start_u)
       IN /\ site_seq' = r.site_seq
          /\ call' = [op |-> "get_hop_site_sequence", outcome |-> r.outcome]
    /\ UNCHANGED <<phase, structure, graph, unique_hops, gen, nops, list_in, list_out,
                   one_path, ordered_path, hop_list, start_u>>

PathNext == ModifyPath \/ GetHopSiteSequence

PathSpec == PathInit /\ [][PathNext]_vars

-----------------------------------------------------------------------------
(* Properties *)

IsEquivalence(n, r) ==
    /\ \A i \in 1..n : <<i, i>> \in r
    /\ \A i, j \in 1..n : <<i, j>> \in r => <<j, i>> \in r
    /\ \A i, j, k \in 1..n : (<<i, j>> \in r /\ <<j, k>> \in r) => <<i, k>> \in r

Built == phase = "built"
JustBuilt == phase = "built" /\ call.op = "__init__"
EdgeIds == 1..Len(graph)
LabelOf(i) == graph[i].d["hop_label"]

\* C1: with a comparator that is an equivalence relation generic_groupby
\* gives every item an integer label, and two items the same label exactly
\* when the comparator holds of them; so the edges that group_and_label_hops
\* gives one hop_label are pairwise equal hops (and those it gives different
\* labels are not).
C1_LabelsAreTheClasses ==
    /\ (call.op = "generic_groupby" /\ IsEquivalence(list_in.n, list_in.comp))
          => /\ Len(list_out) = list_in.n
             /\ \A i \in 1..list_in.n : list_out[i] # NoneLabel
             /\ \A i, j \in 1..list_in.n :
                   (list_out[i] = list_out[j]) <=> (<<i, j>> \in list_in.comp)
    /\ Built
          => \A i, j \in EdgeIds :
                /\ LabelOf(i).t = "num"
                /\ (LabelOf(i) = LabelOf(j)) <=> HopEq(graph[i].hop, graph[j].hop)

\* a list of the largest size grouped into two classes, one of them with two
\* items that are not neighbours in the list
C1_Witness ==
    /\ call.op = "generic_groupby"
    /\ IsEquivalence(list_in.n, list_in.comp)
    /\ list_in.n = MaxItems
    /\ <<1, 3>> \in list_in.comp
    /\ <<1, 2>> \notin list_in.comp
    /\ list_out[1] = list_out[3]
    /\ list_out[1] # list_out[2]

\* C2: after construction unique_hops has exactly the labels of the edges as
\* its keys, each once, and the entry of label L is the data of the first
\* edge labelled L in the graph's edge order, which carries that edge's
\* iindex, eindex and hop_distance.
C2_UniqueHopsAreFirstEdges ==
    JustBuilt =>
        /\ {unique_hops[i].k : i \in 1..Len(unique_hops)} = {LabelOf(e) : e \in EdgeIds}
        /\ \A i, j \in 1..Len(unique_hops) :
              unique_hops[i].k = unique_hops[j].k => i = j
        /\ \A i \in 1..Len(unique_hops) :
              LET e == unique_hops[i].e IN
              /\ e \in EdgeIds
              /\ LabelOf(e) = unique_hops[i].k
              /\ \A f \in EdgeIds : LabelOf(f) = unique_hops[i].k => e <= f
              /\ graph[e].d["iindex"] = Num(graph[e].u)
              /\ graph[e].d["eindex"] = Num(graph[e].v)
              /\ graph[e].d["hop_distance"] = Num(graph[e].hop.length)

\* a graph just built in which one label is carried by two edges and
\* another label by a third
C2_Witness ==
    /\ JustBuilt
    /\ Len(unique_hops) = 2
    /\ \E e, f \in EdgeIds : e # f /\ LabelOf(e) = LabelOf(f)

\* the data dict of the representative edge of label L: unique_hops[L]
Representative(L) ==
    graph[unique_hops[CHOOSE i \in 1..Len(unique_hops) : unique_hops[i].k = L].e].d

CostOf(e) == e.d["cost"]

\* C3: after assign_cost_to_graph(cost_keys) every edge has a cost, the
\* product of the cost_keys attributes of the representative edge of its
\* label, so the edges of one label have one cost; with
\* cost_keys = [hop_distance] it is the hop distance of the label.
C3_CostIsProductOfRepresentative ==
    (call.op = "assign_cost_to_graph" /\ call.outcome = "ok") =>
        \A e \in EdgeIds :
            /\ CostOf(graph[e]) =
                  Num(Prod([j \in 1..Len(call.cost_keys) |->
                              NumOf(Representative(LabelOf(e))[call.cost_keys[j]])]))
            /\ \A f \in EdgeIds : LabelOf(e) = LabelOf(f) => CostOf(graph[e]) = CostOf(graph[f])
            /\ call.cost_keys = <<"hop_distance">>
                  => CostOf(graph[e]) = Representative(LabelOf(e))["hop_distance"]

\* labels 0 and 1 with hop distances 2 and 3, cost_keys = [hop_distance]:
\* cost 2 on the edges of label 0, of which there are two, and 3 on label 1
C3_Witness ==
    /\ call.op = "assign_cost_to_graph"
    /\ call.outcome = "ok"
    /\ call.cost_keys = <<"hop_distance">>
    /\ \E e, f, g \in EdgeIds :
          /\ e # f
          /\ LabelOf(e) = Num(0) /\ LabelOf(f) = Num(0) /\ LabelOf(g) = Num(1)
          /\ CostOf(graph[e]) = Num(2) /\ CostOf(graph[f]) = Num(2)
          /\ CostOf(graph[g]) = Num(3)

IsAddData(c) == c.op = "add_data_to_similar_edges"

\* C4: add_data_to_similar_edges changes only the attributes named in data
\* and only on the edges labelled target_label: the other edges and the
\* other attributes stay as they were, and no edge or node comes or goes.
C4_AddDataFrame ==
    [][IsAddData(call') =>
          /\ structure' = structure
          /\ Len(graph') = Len(graph)
          /\ \A e \in 1..Len(graph) :
                /\ graph'[e].u = graph[e].u
                /\ graph'[e].v = graph[e].v
                /\ graph'[e].to_jimage = graph[e].to_jimage
                /\ graph'[e].hop = graph[e].hop
                /\ graph[e].d["hop_label"] # Num(call'.target_label)
                      => graph'[e] = graph[e]
                /\ \A k \in AttrKeys \ DataKeys(call'.data) :
                      graph'[e].d[k] = graph[e].d[k]]_vars

\* data was added to the edges of one label of a graph that has an edge of
\* another label, all of them holding a cost from before
C4_Witness ==
    /\ IsAddData(call)
    /\ call.outcome = "ok"
    /\ \E e, f \in EdgeIds :
          /\ LabelOf(e) = Num(call.target_label)
          /\ LabelOf(f) # Num(call.target_label)
          /\ ~IsAbsent(CostOf(graph[e]))
          /\ ~IsAbsent(graph[e].d["profile"])
          /\ IsAbsent(graph[f].d["profile"])

\* the value that edge e is to hold under key number j of the call's data
Expected(c, e, j) ==
    IF /\ c.m_path.given
       /\ c.data[j].v.t = "list"
       /\ ~SameOrientation(structure, c.m_path, e)
    THEN List(Reverse(c.data[j].v.v))
    ELSE c.data[j].v

\* C5: when add_data_to_similar_edges completes normally every edge of the
\* target label holds, for each key of data, the reverse of the value if a
\* reference hop was given, the value is a list and the edge's initial site
\* is not equivalent to the reference's, and the value as given otherwise;
\* whatever was flipped on the edges before it.
C5_FlipByOwnOrientation ==
    (IsAddData(call) /\ call.outcome = "ok") =>
        \A e \in EdgeIds :
            LabelOf(e) = Num(call.target_label) =>
                \A j \in 1..Len(call.data) :
                    graph[e].d[call.data[j].k] = Expected(call, graph[e], j)

\* a list and a number were given with a reference hop to a label with two
\* edges, the first against the reference's orientation, the second along it
C5_Witness ==
    /\ IsAddData(call)
    /\ call.outcome = "ok"
    /\ call.m_path.given
    /\ \E e, f \in EdgeIds :
          /\ e < f
          /\ LabelOf(e) = Num(call.target_label)
          /\ LabelOf(f) = Num(call.target_label)
          /\ ~SameOrientation(structure, call.m_path, graph[e])
          /\ SameOrientation(structure, call.m_path, graph[f])
          /\ graph[e].d["profile"] = List(<<2, 1>>)
          /\ graph[f].d["profile"] = List(<<1, 2>>)
          /\ graph[e].d["max_avg_chg"] = Num(2)

HasArray(data) == \E j \in 1..Len(data) : data[j].v.t = "array"

Misoriented(c) ==
    \E e \in EdgeIds :
        /\ LabelOf(e) = Num(c.target_label)
        /\ ~SameOrientation(structure, c.m_path, graph[e])

\* C6: a call with a reference hop and an array among the values, on a label
\* with an edge whose initial site is not equivalent to the reference's,
\* ends in the Warning being raised, never normally.
C6_ArrayFlipFails ==
    (IsAddData(call) /\ call.m_path.given /\ HasArray(call.data) /\ Misoriented(call))
        => call.outcome = "Warning"

\* such a call, raised on the second edge of the label after the first,
\* oriented like the reference, took the array
C6_Witness ==
    /\ IsAddData(call)
    /\ call.outcome = "Warning"
    /\ HasArray(call.data)
    /\ \E e, f \in EdgeIds :
          /\ e < f
          /\ LabelOf(e) = Num(call.target_label)
          /\ LabelOf(f) = Num(call.target_label)
          /\ SameOrientation(structure, call.m_path, graph[e])
          /\ ~SameOrientation(structure, call.m_path, graph[f])
          /\ graph[e].d["grid"].t = "array"

IsNext(c) == c.op = "next"

\* the edges of the sequence es between the node indices of the states s1
\* and s2 whose to_jimage is the image displacement from s1 to s2 or its
\* negation
StepEdges(es, s1, s2) ==
    {e \in 1..Len(es) :
        /\ {es[e].u, es[e].v} = {s1[1], s2[1]}
        /\ es[e].to_jimage \in {SubI(s2[2], s1[2]), NegI(SubI(s2[2], s1[2]))}}

Steps(route) == 1..(Len(route) - 1)

\* every yielded path has one hop per step of the route, an edge of the
\* graph between the two node indices with to_jimage the displacement or
\* its negation
HopsFollowRoute(c) ==
    c.outcome = "yield" =>
        /\ Len(c.path_hops) = Len(c.route) - 1
        /\ \A i \in Steps(c.route) :
              \E e \in StepEdges(graph, c.route[i], c.route[i + 1]) :
                  graph[e] = c.path_hops[i]

\* C7: every yielded path has exactly one hop per step of the route, an
\* edge of the original graph between the two node indices whose to_jimage
\* is the displacement of the step or its negation; and when some step has
\* no such edge or more than one, RuntimeError is raised and no path yielded.
C7_OneOriginalEdgePerStep ==
    IsNext(call) =>
        /\ HopsFollowRoute(call)
        /\ (\E i \in Steps(call.route) :
               Cardinality(StepEdges(graph, call.route[i], call.route[i + 1])) # 1)
              => call.outcome = "RuntimeError"

\* the edges the search may use: those of cost at most max_val
Usable(max_val) == {e \in EdgeIds : NumOf(CostOf(graph[e])) <= max_val}

\* the traversal states one hop away from s over the usable edges, the
\* image kept within the bound
Moves(s, max_val) ==
    {t \in {<<graph[e].v, AddI(s[2], graph[e].to_jimage)>> :
                e \in {x \in Usable(max_val) : graph[x].u = s[1]}}
           \cup {<<graph[e].u, SubI(s[2], graph[e].to_jimage)>> :
                e \in {x \in Usable(max_val) : graph[x].v = s[1]}} :
        InImageBound(t[2])}

RECURSIVE ReachFrom(_, _)
ReachFrom(S, max_val) ==
    LET T == S \cup UNION {Moves(s, max_val) : s \in S}
    IN IF T = S THEN S ELSE ReachFrom(T, max_val)

\* node n reaches a copy of itself in another cell
Escapes(n, max_val) ==
    \E s \in ReachFrom({<<n, Zero3>>}, max_val) : s[1] = n /\ s[2] # Zero3

\* C8: no yielded path holds an edge of cost above max_val; with max_val
\* below every edge's cost nothing is yielded; and an edge of cost equal to
\* max_val stays usable: a node that is passed over has no edge to its own
\* image of cost at most max_val.
C8_OnlyEdgesWithinMaxVal ==
    IsNext(call) =>
        /\ call.outcome = "yield"
              => \A i \in 1..Len(call.path_hops) :
                    NumOf(CostOf(call.path_hops[i])) <= call.max_val
        /\ (HasAllCosts(graph)
              /\ \A e \in EdgeIds : NumOf(CostOf(graph[e])) > call.max_val)
              => call.outcome = "StopIteration"
        /\ call.outcome \in {"yield", "StopIteration"}
              => \A n \in call.from..(call.u - 1) :
                    ~\E e \in EdgeIds :
                        /\ graph[e].u = n /\ graph[e].v = n
                        /\ NumOf(CostOf(graph[e])) <= call.max_val

\* a path was yielded over edges of cost equal to max_val in a graph that
\* has a dearer edge
C8_Witness ==
    /\ IsNext(call)
    /\ call.outcome = "yield"
    /\ Len(call.path_hops) >= 2
    /\ \A i \in 1..Len(call.path_hops) : CostOf(call.path_hops[i]) = Num(call.max_val)
    /\ \E e \in EdgeIds : NumOf(CostOf(graph[e])) > call.max_val

\* C9: get_intercollating_path cuts edges from a copy: creating the
\* generator and running it leave the graph, its edges' data and
\* unique_hops as they were.
C9_ExtractionKeepsGraph ==
    [][(call'.op \in {"next", "get_intercollating_path"})
          => /\ graph' = graph
             /\ unique_hops' = unique_hops
             /\ structure' = structure]_vars

\* a path was yielded by a search that left out an edge, and the edge is
\* still in the graph
C9_Witness ==
    /\ IsNext(call)
    /\ call.outcome = "yield"
    /\ \E e \in EdgeIds : NumOf(CostOf(graph[e])) > call.max_val
    /\ Len(graph) = Len(structure.pairs)

StrictlyIncreasing(q) == \A i, j \in 1..Len(q) : i < j => q[i] < q[j]

\* C10: when no error is raised, a resumption of the generator passes over
\* the nodes that reach no copy of themselves in another cell over the
\* pruned graph and yields for the first node that does, or ends after the
\* last node; so the nodes yielded come in graph order, each once, and are
\* at most as many as the nodes.
C10_OneResultPerEscapingNode ==
    (IsNext(call) /\ call.outcome \in {"yield", "StopIteration"}) =>
        /\ \A n \in call.from..(call.u - 1) : ~Escapes(n, call.max_val)
        /\ call.outcome = "yield"
              => /\ call.u \in Nodes(structure)
                 /\ call.from <= call.u
                 /\ Escapes(call.u, call.max_val)
                 /\ gen.pos = call.u + 1
                 /\ gen.yielded[Len(gen.yielded)] = call.u
        /\ call.outcome = "StopIteration"
              => /\ call.u = structure.nodes
                 /\ gen.state = "finished"
        /\ StrictlyIncreasing(gen.yielded)
        /\ Len(gen.yielded) <= structure.nodes

\* the first node, with no edge, was passed over and the second yielded
C10_Witness ==
    /\ IsNext(call)
    /\ call.outcome = "yield"
    /\ call.from = 0
    /\ call.u = 1
    /\ gen.yielded = <<1>>
    /\ Len(call.path_hops) = 1

\* the cost of going from state s to the neighbouring state t over the
\* usable edges: the cheapest of the edges that make the move
MoveCost(s, t, max_val) ==
    LET fwd == {e \in Usable(max_val) :
                   /\ graph[e].u = s[1] /\ graph[e].v = t[1]
                   /\ AddI(s[2], graph[e].to_jimage) = t[2]}
        bwd == {e \in Usable(max_val) :
                   /\ graph[e].v = s[1] /\ graph[e].u = t[1]
                   /\ SubI(s[2], graph[e].to_jimage) = t[2]}
        es == fwd \cup bwd
    IN NumOf(CostOf(graph[CHOOSE e \in es :
                 \A f \in es : NumOf(CostOf(graph[e])) <= NumOf(CostOf(graph[f]))]))

RECURSIVE RouteCost(_, _, _)
RouteCost(route, i, max_val) ==
    IF i >= Len(route) THEN 0
    ELSE MoveCost(route[i], route[i + 1], max_val) + RouteCost(route, i + 1, max_val)

\* the cheapest entry of each state among the <<state, cost>> pairs of D
Cheapest(D) == {p \in D : \A q \in D : q[1] = p[1] => p[2] <= q[2]}

RECURSIVE ShortestFrom(_, _)
\* Bellman-Ford over <<state, cost>> pairs, to the fixed point
ShortestFrom(D, max_val) ==
    LET T == Cheapest(D \cup UNION {{<<t, p[2] + MoveCost(p[1], t, max_val)>> :
                                        t \in Moves(p[1], max_val)} : p \in D})
    IN IF T = D THEN D ELSE ShortestFrom(T, max_val)

\* the least cost of a walk from (u, (0,0,0)) to each state it reaches
Shortest(u, max_val) == ShortestFrom({<<<<u, Zero3>>, 0>>}, max_val)

\* C11: the route chosen for node u starts at (u, (0,0,0)), ends at a copy
\* of u in another cell, moves over usable edges through states whose image
\* components are all in -1..1, and costs no more than the cheapest way to
\* any copy of u in another cell.
C11_RouteIsCheapestEscape ==
    (IsNext(call) /\ call.outcome \in {"yield", "RuntimeError"}) =>
        LET r == call.route
            u == call.u
            best == Shortest(u, call.max_val)
        IN /\ Len(r) >= 2
           /\ r[1] = <<u, Zero3>>
           /\ r[Len(r)][1] = u
           /\ r[Len(r)][2] # Zero3
           /\ \A i \in 1..Len(r) : InImageBound(r[i][2])
           /\ \A i \in Steps(r) : r[i + 1] \in Moves(r[i], call.max_val)
           /\ \A p \in best :
                 (p[1][1] = u /\ p[1][2] # Zero3)
                     => RouteCost(r, 1, call.max_val) <= p[2]

\* a route of two steps or more was chosen where another copy of the node is
\* reached as well, and an edge from a state of the route would leave the
\* image bound
C11_Witness ==
    /\ IsNext(call)
    /\ call.outcome = "yield"
    /\ Len(call.route) >= 3
    /\ \E p \in Shortest(call.u, call.max_val) :
          /\ p[1][1] = call.u
          /\ p[1][2] # Zero3
          /\ p[1] # call.route[Len(call.route)]
          /\ p[2] >= RouteCost(call.route, 1, call.max_val)
    /\ \E e \in Usable(call.max_val), i \in 1..Len(call.route) :
          /\ graph[e].u = call.route[i][1]
          /\ ~InImageBound(AddI(call.route[i][2], graph[e].to_jimage))

\* the traversal states one hop of the path away from the state s: the hop
\* followed from its first end by +to_jimage or from its second end by
\* -to_jimage, the image kept within the bound
HopMoves(hop, s) ==
    {t \in (IF hop[1] = s[1] THEN {<<hop[2], AddI(s[2], hop[3].to_jimage)>>} ELSE {})
           \cup (IF hop[2] = s[1] THEN {<<hop[1], SubI(s[2], hop[3].to_jimage)>>} ELSE {}) :
        InImageBound(t[2])}

RECURSIVE RoutesAlong(_, _, _)
\* the routes, each through distinct states, that follow the hops i.. of the
\* path and extend one of the routes R
RoutesAlong(path, i, R) ==
    IF i > Len(path) THEN R
    ELSE RoutesAlong(path, i + 1,
             {q \in UNION {{Append(r, t) : t \in HopMoves(path[i], r[Len(r)])} : r \in R} :
                 \A j \in 1..(Len(q) - 1) : q[j] # q[Len(q)]})

\* the path is what the stitching gives for an escaping route: stored edges
\* (u <= v) that lead from a site in the cell (0,0,0) to the same site in
\* another cell
IsStitchedEscape(path) ==
    /\ Len(path) >= 1
    /\ \A i \in 1..Len(path) : path[i][1] <= path[i][2]
    /\ \E n \in Sites :
          \E r \in RoutesAlong(path, 1, {<<<<n, Zero3>>>>}) :
              r[Len(r)][1] = n /\ r[Len(r)][2] # Zero3

IsModifyPath(c) == c.op = "modify_path"

\* C12: a path that modify_path produces from a stitched escaping path ends
\* with a hop that leaves the cell (to_jimage != (0,0,0)) and has no earlier
\* hop that does.
C12_LastHopLeavesCell ==
    (IsModifyPath(call) /\ call.outcome = "yield" /\ IsStitchedEscape(one_path)) =>
        /\ Len(ordered_path) >= 1
        /\ ordered_path[Len(ordered_path)][3].to_jimage # Zero3
        /\ \A i \in 1..(Len(ordered_path) - 1) : ordered_path[i][3].to_jimage = Zero3

\* C13: construction with vac_mode = True ends in NotImplementedError
\* whatever the structure, with no graph built, no hop labelled and
\* unique_hops not populated; construction without it succeeds.
C13_VacModeNotImplemented ==
    call.op = "__init__" =>
        /\ call.vac_mode
              => /\ call.outcome = "NotImplementedError"
                 /\ phase = "failed"
                 /\ graph = <<>>
                 /\ unique_hops = <<>>
        /\ ~call.vac_mode
              => /\ call.outcome = "ok"
                 /\ phase = "built"
                 /\ Len(graph) = Len(structure.pairs)

\* construction with vac_mode = True failed on a structure whose graph would
\* have had edges of two hop classes
C13_Witness ==
    /\ call.op = "__init__"
    /\ call.vac_mode
    /\ phase = "failed"
    /\ \E i, j \in 1..Len(structure.pairs) :
          structure.pairs[i].hop.cls # structure.pairs[j].hop.cls

IsHopSiteSequence(c) == c.op = "get_hop_site_sequence"

RECURSIVE LastSite(_)
\* the site reached after hops 1..i of hop_list, each hop left by the end
\* that is not the site it was entered at
LastSite(i) ==
    IF i = 1
    THEN IF hop_list[1].eindex = start_u THEN hop_list[1].iindex ELSE hop_list[1].eindex
    ELSE IF hop_list[i].iindex = LastSite(i - 1)
         THEN hop_list[i].eindex
         ELSE hop_list[i].iindex

\* hop i does not chain: neither of its ends is the site reached before it
Unchained(i) ==
    /\ hop_list[i].iindex # LastSite(i - 1)
    /\ hop_list[i].eindex # LastSite(i - 1)

\* C14: for a non-empty hop list get_hop_site_sequence returns one site more
\* than there are hops, entries i and i+1 being the two ends of hop i, or
\* raises RuntimeError; it raises exactly when a hop after the first has
\* neither end equal to the last site of the sequence built up to it.
C14_SiteSequenceOrError ==
    (IsHopSiteSequence(call) /\ hop_list # <<>>) =>
        /\ call.outcome \in {"ok", "RuntimeError"}
        /\ call.outcome = "ok"
              => /\ Len(site_seq) = Len(hop_list) + 1
                 /\ \A i \in 1..Len(hop_list) :
                       {site_seq[i], site_seq[i + 1]}
                           = {hop_list[i].iindex, hop_list[i].eindex}
        /\ call.outcome = "RuntimeError"
              <=> \E i \in 2..Len(hop_list) :
                      /\ Unchained(i)
                      /\ \A j \in 2..(i - 1) : ~Unchained(j)

\* a sequence was returned for three hops, the first entered at its eindex
\* and a later one followed from its eindex to its iindex
C14_Witness ==
    /\ IsHopSiteSequence(call)
    /\ call.outcome = "ok"
    /\ Len(hop_list) = 3
    /\ hop_list[1].eindex = start_u
    /\ hop_list[1].iindex # start_u
    /\ \E i \in 2..3 : hop_list[i].eindex = site_seq[i] /\ hop_list[i].iindex # site_seq[i]

RECURSIVE WalkEnds(_, _, _)
\* the sites where a walk can stand after the hops i.. of the path, taken in
\* order and in either direction, from one of the sites S
WalkEnds(path, i, S) ==
    IF i > Len(path) THEN S
    ELSE WalkEnds(path, i + 1,
             {path[i][2] : h \in {x \in S : x = path[i][1]}}
                 \cup {path[i][1] : h \in {x \in S : x = path[i][2]}})

\* the hops form a closed walk over the node indices
IsClosedWalk(path) == \E n \in Sites : n \in WalkEnds(path, 1, {n})

\* C15: from a closed walk of n >= 2 hops modify_path yields n hops, each
\* starting where the one before it ends, each being one input hop as stored
\* or with its ends swapped and its to_jimage negated, every input hop used
\* once, and the input hops left as they were.
C15_OrderedPathOfSameHops ==
    (IsModifyPath(call) /\ Len(one_path) >= 2 /\ IsClosedWalk(one_path)) =>
        /\ call.outcome = "yield"
        /\ Len(ordered_path) = Len(one_path)
        /\ \A j \in 2..Len(ordered_path) : ordered_path[j][1] = ordered_path[j - 1][2]
        /\ \A j \in 1..Len(ordered_path) :
              \E i \in 1..Len(one_path) :
                  ordered_path[j] \in {one_path[i], FlippedHop(one_path[i])}
        /\ \A i \in 1..Len(one_path) :
              Cardinality({j \in 1..Len(ordered_path) : ordered_path[j][3].id = i}) = 1
        /\ \A i \in 1..Len(one_path) : one_path[i][3].id = i

IsModifyPathOfResults(c) == c.op = "modify_path(get_intercollating_path)"

\* C16: every result that get_intercollating_path yields is taken by
\* modify_path and turned into an ordered path without a failure.
C16_ResultsAreModified ==
    (IsModifyPathOfResults(call) /\ call.result = "yield") =>
        call.outcome = "yield"

IsLeastChgPath(c) == c.op = "get_least_chg_path"

RECURSIVE ResultsFrom(_, _)
\* the paths that get_intercollating_path(max_val) produces from node pos on,
\* and how the generator ends
ResultsFrom(max_val, pos) ==
    LET r == GenStep(structure, graph, max_val, pos)
    IN IF r.outcome = "yield"
       THEN LET rest == ResultsFrom(max_val, r.u + 1)
            IN [paths |-> <<r.path_hops>> \o rest.paths, outcome |-> rest.outcome]
       ELSE [paths |-> <<>>, outcome |-> r.outcome]

RECURSIVE SumChg(_)
\* the sum of chg_total over the hops of a path
SumChg(path) ==
    IF path = <<>> THEN 0
    ELSE NumOf(Head(path).d["chg_total"]) + SumChg(Tail(path))

\* C17: when every hop carries chg_total and a cost and the generator
\* produces paths, get_least_chg_path returns one of them, and none of the
\* produced paths has a smaller sum of chg_total.
C17_LeastChgPathIsReturned ==
    (/\ IsLeastChgPath(call)
     /\ HasAllCosts(graph)
     /\ \A e \in EdgeIds : ~IsAbsent(graph[e].d["chg_total"])
     /\ ResultsFrom(DefaultMaxVal, 0).outcome = "StopIteration"
     /\ ResultsFrom(DefaultMaxVal, 0).paths # <<>>) =>
        LET produced == ResultsFrom(DefaultMaxVal, 0).paths
        IN /\ call.outcome = "ok"
           /\ \E i \in 1..Len(produced) : call.min_path = produced[i]
           /\ \A i \in 1..Len(produced) : SumChg(call.min_path) <= SumChg(produced[i])

RECURSIVE ChainedTo(_, _)
\* the items connected to one of the items S by a chain of comparator matches
ChainedTo(S, comp) ==
    LET T == S \cup {j \in 1..list_in.n : \E i \in S : <<i, j>> \in comp}
    IN IF T = S THEN S ELSE ChainedTo(T, comp)

\* C18: with a comparator that is reflexive and symmetric, transitive or
\* not, generic_groupby gives two items the same label exactly when a chain
\* of comparator matches connects them.
C18_LabelsAreTransitiveClosure ==
    call.op = "generic_groupby" =>
        \A i, j \in 1..list_in.n :
            (list_out[i] = list_out[j]) <=> (j \in ChainedTo({i}, list_in.comp))

\* the data dict of the representative edge of label L in the graph es
RepresentativeIn(es, L) ==
    es[unique_hops[CHOOSE i \in 1..Len(unique_hops) : unique_hops[i].k = L].e].d

\* C19: the cost follows the decoration data: when add_data_to_similar_edges
\* is called after assign_cost_to_graph(cost_keys), every edge's cost is
\* afterwards the product of the cost_keys attributes that the
\* representative edge of its label then has.
C19_CostFollowsData ==
    [][(/\ call.op = "assign_cost_to_graph"
        /\ call.outcome = "ok"
        /\ call'.op = "add_data_to_similar_edges")
          => \A e \in 1..Len(graph') :
                graph'[e].d["cost"] =
                    Num(Prod([j \in 1..Len(call.cost_keys) |->
                        NumOf(RepresentativeIn(graph', graph'[e].d["hop_label"])
                                  [call.cost_keys[j]])]))]_vars

\* a consumer of the generator took a step: next() on it, or the first step
\* of modify_path or get_least_chg_path over it
IsExtraction(c) ==
    c.op \in {"next", "modify_path(get_intercollating_path)", "get_least_chg_path"}

\* C20: construction puts no cost on any edge, and extraction from a graph
\* with an edge that has no cost fails with KeyError; a completed
\* assign_cost_to_graph leaves a cost on every edge, each edge's label being
\* a key of unique_hops; once every edge has a cost no call takes it away,
\* and extraction then never fails with KeyError.
C20_CostBeforeExtraction ==
    [][/\ (call'.op = "__init__" /\ call'.outcome = "ok")
             => \A e \in 1..Len(graph') : IsAbsent(graph'[e].d["cost"])
       /\ (IsExtraction(call') /\ ~HasAllCosts(graph))
             => call'.outcome = "KeyError"
       /\ (call'.op = "assign_cost_to_graph" /\ call'.outcome = "ok")
             => /\ HasAllCosts(graph')
                /\ \A e \in 1..Len(graph') :
                      \E i \in 1..Len(unique_hops) :
                          unique_hops[i].k = graph'[e].d["hop_label"]
       /\ (phase = "built" /\ HasAllCosts(graph)) => HasAllCosts(graph')
       /\ (IsExtraction(call') /\ HasAllCosts(graph))
             => call'.outcome # "KeyError"]_vars

\* a path was yielded from a graph whose edges carry a cost and data added
\* by add_data_to_similar_edges
C20_Witness ==
    /\ IsNext(call)
    /\ call.outcome = "yield"
    /\ Len(graph) >= 1
    /\ \A e \in EdgeIds : ~IsAbsent(graph[e].d["profile"])
    /\ HasAllCosts(graph)

\* C21: after construction, whatever calls of add_data_to_similar_edges,
\* assign_cost_to_graph and get_intercollating_path were made, the graph has
\* the edges and hop labels it was built with, unique_hops has the keys it
\* was built with, which are the labels on the edges, each entry being the
\* data dict of an edge of that label; and after add_data_to_similar_edges
\* the entry of the target label holds every value of the data, as given or
\* reversed.
C21_UniqueHopsStayWithGraph ==
    Built =>
        /\ Len(graph) = Len(structure.pairs)
        /\ \A e \in EdgeIds :
              /\ graph[e].u = structure.pairs[e].u
              /\ graph[e].v = structure.pairs[e].v
              /\ graph[e].to_jimage = structure.pairs[e].to_jimage
              /\ graph[e].hop = structure.pairs[e].hop
              /\ LabelOf(e) = BuildGraph(structure)[e].d["hop_label"]
        /\ unique_hops = _populate_unique_hops_dict(BuildGraph(structure))
        /\ {unique_hops[i].k : i \in 1..Len(unique_hops)} = {LabelOf(e) : e \in EdgeIds}
        /\ \A i \in 1..Len(unique_hops) :
              /\ unique_hops[i].e \in EdgeIds
              /\ LabelOf(unique_hops[i].e) = unique_hops[i].k
        /\ IsAddData(call)
              => \A i \in 1..Len(unique_hops) :
                    unique_hops[i].k = Num(call.target_label)
                        => \A j \in 1..Len(call.data) :
                              LET shown == graph[unique_hops[i].e].d[call.data[j].k]
                                  given == call.data[j].v
                              IN \/ shown = given
                                 \/ /\ given.t = "list"
                                    /\ shown = List(Reverse(given.v))

\* two calls were made on a graph with two labels, the last one adding data,
\* flipped on the representative edge, to a label carried by two edges, after
\* the other label had been given data or every edge a cost
C21_Witness ==
    /\ Built
    /\ nops = 2
    /\ IsAddData(call)
    /\ call.m_path.given
    /\ Len(unique_hops) = 2
    /\ \E i \in 1..Len(unique_hops), f \in EdgeIds :
          /\ unique_hops[i].k = Num(call.target_label)
          /\ f # unique_hops[i].e
          /\ LabelOf(f) = unique_hops[i].k
          /\ graph[unique_hops[i].e].d["profile"].t = "list"
          /\ \E j \in 1..Len(call.data) :
                /\ call.data[j].k = "profile"
                /\ graph[unique_hops[i].e].d["profile"] = List(Reverse(call.data[j].v.v))

=============================================================================
